---- MODULE Spec2Model ----
(***************************************************************************)
(* SuperStore KPI dashboard (src/app.py): a Streamlit script re-executed   *)
(* in full on every widget interaction, over a memoized spreadsheet load.  *)
(*                                                                         *)
(* Order dates are whole days (day numbers); currency amounts are whole    *)
(* units and quotients are exact rationals <<n, d>> in lowest terms, with  *)
(* <<1, 0>> standing for float('inf').                                     *)
(***************************************************************************)
EXTENDS Integers, Sequences, FiniteSets, TLC

\* ---------------------------------------------------------------- bounds
MaxRows == 3        \* rows of the spreadsheet in the small-dataset runs
ExtraProducts == 1  \* products beyond the table size in the many-product runs

\* ------------------------------------------------------------- constants
TopN == 10          \* product_grouped.head(10)

\* ------------------------------------------------------------ arithmetic
Abs(x) == IF x < 0 THEN -x ELSE x

RECURSIVE Gcd(_, _)
Gcd(a, b) == IF b = 0 THEN a ELSE Gcd(b, a % b)

\* the number n/d as a pair in lowest terms with a positive denominator
Rat(n, d) ==
    LET g == Gcd(Abs(n), Abs(d))
        s == IF d < 0 THEN -1 ELSE 1
    IN  <<(s * n) \div g, (s * d) \div g>>

R(i) == <<i, 1>>
Inf == <<1, 0>>
RSub(a, b) == Rat(a[1] * b[2] - b[1] * a[2], a[2] * b[2])
RMul(a, b) == Rat(a[1] * b[1], a[2] * b[2])
RDiv(a, b) == Rat(a[1] * b[2], a[2] * b[1])
RLess(a, b) == a[1] * b[2] < b[1] * a[2]

\* ---------------------------------------------------------------- frames
\* A dataframe is a sequence of rows; a row maps column names to values.
NaN == "<NaN>"

\* the function f over 1..n as a sequence value
AsSeq(f) == f \o <<>>

Row(reg, st, cat, sub, prod, day, sales, qty, profit) ==
    ("Region" :> reg) @@ ("State" :> st) @@ ("Category" :> cat) @@
    ("Sub-Category" :> sub) @@ ("Product Name" :> prod) @@
    ("Order Date" :> day) @@ ("Sales" :> sales) @@ ("Quantity" :> qty) @@
    ("Profit" :> profit)

\* every label of the data, in ascending (lexicographic) order
SortedNames ==
    <<"CA", "Chair", "Chairs", "East", "Furniture", "NJ", "NY",
      "P01", "P02", "P03", "P04", "P05", "P06", "P07", "P08", "P09", "P10",
      "P11", "P12", "P13", "P14",
      "Phone", "Phones", "Table", "Tables", "Technology", "West">>

\* df[col].dropna().unique()
unique(df, col) == {df[i][col] : i \in DOMAIN df} \ {NaN}

\* sorted(values) for a set of labels
sorted(S) == SelectSeq(SortedNames, LAMBDA x : x \in S)

\* df[df[col] == value]
mask_eq(df, col, value) == SelectSeq(df, LAMBDA r : r[col] = value)

\* df[(df["Order Date"] >= lo) & (df["Order Date"] <= hi)]
mask_between(df, lo, hi) ==
    SelectSeq(df, LAMBDA r : r["Order Date"] >= lo /\ r["Order Date"] <= hi)

RECURSIVE SumSeq(_, _)
SumSeq(df, col) ==
    IF df = <<>> THEN 0 ELSE df[1][col] + SumSeq(Tail(df), col)

\* df[col].sum()
col_sum(df, col) == SumSeq(df, col)

SetMin(S) == CHOOSE x \in S : \A y \in S : x <= y
SetMax(S) == CHOOSE x \in S : \A y \in S : x >= y

\* df["Order Date"].min() / .max()
date_min(df) == SetMin({df[i]["Order Date"] : i \in DOMAIN df})
date_max(df) == SetMax({df[i]["Order Date"] : i \in DOMAIN df})

\* ------------------------------------------------------------- load_data
\* The spreadsheet: its rows and whether pandas reads the Order Date column
\* with a datetime dtype; otherwise the column holds text.
DateText == <<"2017-01-01", "2017-01-02", "2017-01-03">>

\* pd.to_datetime on one text value
to_datetime(txt) == CHOOSE d \in DOMAIN DateText : DateText[d] = txt

\* pd.read_excel("Sample - Superstore.xlsx")
read_excel(f) == f.rows

\* body of load_data: read, coerce Order Date when it is not datetime
load_data_body(f) ==
    LET df == read_excel(f)
    IN  IF ~f.datetime_dtype
        THEN AsSeq([i \in DOMAIN df |->
                        [df[i] EXCEPT !["Order Date"] = to_datetime(@)]])
        ELSE df

\* a load_data that reads the file on every call
load_data_uncached(memo, f) ==
    [df |-> load_data_body(f), memo |-> <<load_data_body(f)>>, reads |-> 1]

\* @st.cache_data load_data(): the body runs only when nothing is memoized;
\* memo is <<>> or <<the memoized frame>>
load_data(memo, f) ==
    IF memo = <<>>
    THEN [df |-> load_data_body(f), memo |-> <<load_data_body(f)>>, reads |-> 1]
    ELSE [df |-> memo[1], memo |-> memo, reads |-> 0]

\* -------------------------------------------------------------- widgets
\* a selectbox that keeps the stored selection when its options changed
selectbox_keep_stored(options, last_options, stored) ==
    IF last_options = <<>> THEN options[1] ELSE stored

\* st.sidebar.selectbox(label, options): the stored selection is kept while
\* the widget is the same widget (same options), else the first option
selectbox(options, last_options, stored) ==
    IF options = last_options THEN stored ELSE options[1]

\* a date input that keeps the stored date when its bounds changed
date_input_keep_stored(value, bounds, last_bounds, stored) ==
    IF last_bounds = <<>> THEN value ELSE stored

\* st.sidebar.date_input(label, value, min_value, max_value)
date_input(value, bounds, last_bounds, stored) ==
    IF bounds = last_bounds THEN stored ELSE value

\* st.radio(label, options): kept while it was drawn on the previous run
radio(options, was_drawn, stored) ==
    IF was_drawn THEN stored ELSE options[1]

kpi_options == <<"Sales", "Quantity", "Profit", "Margin Rate">>
chart_options == <<"Line Chart", "Area Chart">>

\* widget state of a session before its first run
NoWidgets ==
    [region |-> "All", state |-> "All", category |-> "All", subcat |-> "All",
     from_date |-> 0, to_date |-> 0, kpi |-> "Sales", chart |-> "Line Chart",
     region_opts |-> <<>>, state_opts |-> <<>>, category_opts |-> <<>>,
     subcat_opts |-> <<>>, date_bounds |-> <<>>, kpi_drawn |-> FALSE]

\* ------------------------------------------------------ script pieces
\* lines 27-30, 35-38, 43-46, 52-53: one categorical filter of the chain
apply_filter(df, col, selected) ==
    IF selected # "All" THEN mask_eq(df, col, selected) ELSE df

\* df_current with To Date excluded
current_rows_exclusive(df_filtered, from_date, to_date) ==
    SelectSeq(df_filtered,
              LAMBDA r : r["Order Date"] >= from_date /\ r["Order Date"] < to_date)

\* lines 70-73: df_current
current_rows(df_filtered, from_date, to_date) ==
    mask_between(df_filtered, from_date, to_date)

\* the previous window with selected_days one day short
previous_window_short(from_date, to_date) ==
    [selected_days |-> to_date - from_date,
     prev_from_date |-> from_date - (to_date - from_date),
     prev_to_date |-> from_date - 1]

\* lines 76-78: selected_days, prev_from_date, prev_to_date
previous_window(from_date, to_date) ==
    LET selected_days == (to_date - from_date) + 1
    IN  [selected_days |-> selected_days,
         prev_from_date |-> from_date - selected_days,
         prev_to_date |-> from_date - 1]

\* lines 95, 100, 156: (profit / sales) if sales != 0 else 0
margin(profit, sales) ==
    IF sales # 0 THEN RDiv(R(profit), R(sales)) ELSE R(0)

\* lines 219, 226: Profit / Sales.replace(0, 1)
grouped_margin(profit, sales) ==
    RDiv(R(profit), R(IF sales = 0 THEN 1 ELSE sales))

\* pct_change giving 0 when there is no previous value
pct_change_zero(current, previous) ==
    IF previous[1] # 0
    THEN RMul(RDiv(RSub(current, previous), previous), R(100))
    ELSE R(0)

\* lines 103-104: pct_change
pct_change(current, previous) ==
    IF previous[1] # 0
    THEN RMul(RDiv(RSub(current, previous), previous), R(100))
    ELSE Inf

\* lines 98-99: df_previous[col].sum() if not df_previous.empty else 0
previous_sum(df_previous, col) ==
    IF df_previous # <<>> THEN col_sum(df_previous, col) ELSE 0

\* ascending sequence of a set of day numbers
RECURSIVE SortedDays(_)
SortedDays(S) ==
    IF S = {} THEN <<>> ELSE <<SetMin(S)>> \o SortedDays(S \ {SetMin(S)})

\* one row of a grouped frame: the key, the three sums, the Margin Rate
group_sums(col, key, sales, quantity, profit) ==
    (col :> key) @@ ("Sales" :> sales) @@ ("Quantity" :> quantity) @@
    ("Profit" :> profit) @@ ("Margin Rate" :> grouped_margin(profit, sales))

group_row(col, key, g) ==
    group_sums(col, key, col_sum(g, "Sales"), col_sum(g, "Quantity"),
               col_sum(g, "Profit"))

\* df.groupby(col).agg(sum of Sales, Quantity, Profit).reset_index(), then
\* the Margin Rate column; keys is the ascending sequence of group keys
grouped(df, col, keys) ==
    AsSeq([k \in DOMAIN keys |-> group_row(col, keys[k], mask_eq(df, col, keys[k]))])

\* lines 214-219
daily_grouped(df_current) ==
    grouped(df_current, "Order Date",
            SortedDays({df_current[i]["Order Date"] : i \in DOMAIN df_current}))

\* lines 221-226 (groupby drops missing keys)
product_grouped(df_current) ==
    grouped(df_current, "Product Name", sorted(unique(df_current, "Product Name")))

\* value of a row under the selected KPI, as a rational
kpi_value(r, kpi) == IF kpi = "Margin Rate" THEN r[kpi] ELSE R(r[kpi])

\* row j sorts before row i: a larger value, or an equal one that the
\* sort routine puts first (tie: "first" keeps equal rows in their order,
\* "last" reverses them)
sorts_before(df, kpi, tie, j, i) ==
    \/ RLess(kpi_value(df[i], kpi), kpi_value(df[j], kpi))
    \/ /\ kpi_value(df[i], kpi) = kpi_value(df[j], kpi)
       /\ IF tie = "first" THEN j < i ELSE j > i

\* the place of every row of df in the sorted frame
sorted_places(df, kpi, tie) ==
    AsSeq([i \in DOMAIN df |->
            1 + Cardinality({j \in DOMAIN df : sorts_before(df, kpi, tie, j, i)})])

reordered(df, place) ==
    AsSeq([p \in DOMAIN df |-> df[CHOOSE i \in DOMAIN df : place[i] = p]])

\* the frame sorted ascending
sort_values_ascending(df, kpi, tie) ==
    reordered(df,
        AsSeq([i \in DOMAIN df |->
                1 + Cardinality({j \in DOMAIN df : sorts_before(df, kpi, tie, i, j)})]))

\* df.sort_values(by=kpi, ascending=False)
sort_values(df, kpi, tie) == reordered(df, sorted_places(df, kpi, tie))

\* df.head(n)
head(df, n) == SubSeq(df, 1, IF Len(df) < n THEN Len(df) ELSE n)

\* the in-place sort hitting the loaded dataset
sort_target_dataset == "df_original"

\* line 228: the frame sorted in place
sort_target == "product_grouped"

\* lines 228-229: the frames after product_grouped.sort_values(inplace=True)
sort_inplace(frames, kpi, tie) ==
    [frames EXCEPT ![sort_target] = sort_values(@, kpi, tie)]

\* ------------------------------------------------------------ the script
\* The script body (lines 19-268), stage by stage; each stage receives
\* the values the lines before it computed.

\* one selectbox of the sidebar and the frame it leaves
filter_result(df, col, options, selected) ==
    [options |-> options, selected |-> selected,
     df |-> apply_filter(df, col, selected)]

filter_widget(df, col, options, last_options, stored) ==
    filter_result(df, col, options, selectbox(options, last_options, stored))

\* lines 25-30, 33-38, 41-46, 49-53
categorical_filter(df, col, last_options, stored) ==
    filter_widget(df, col, <<"All">> \o sorted(unique(df, col)), last_options, stored)

sidebar_result(fr, fs, fc, fu) ==
    [region |-> fr.selected, state |-> fs.selected,
     category |-> fc.selected, subcat |-> fu.selected,
     region_opts |-> fr.options, state_opts |-> fs.options,
     category_opts |-> fc.options, subcat_opts |-> fu.options,
     df_filtered |-> fu.df]

sidebar_subcat(w, fr, fs, fc) ==
    sidebar_result(fr, fs, fc,
        categorical_filter(fc.df, "Sub-Category", w.subcat_opts, w.subcat))

sidebar_category(w, fr, fs) ==
    sidebar_subcat(w, fr, fs,
        categorical_filter(fs.df, "Category", w.category_opts, w.category))

sidebar_state(w, fr) ==
    sidebar_category(w, fr,
        categorical_filter(fr.df, "State", w.state_opts, w.state))

\* lines 24-53: the chain region -> state -> category -> sub-category
sidebar_filters(df_original, w) ==
    sidebar_state(w, categorical_filter(df_original, "Region", w.region_opts, w.region))

\* lines 56-61: min_date, max_date
date_range(df_original, df_filtered) ==
    IF df_filtered = <<>>
    THEN [used_fallback |-> TRUE,
          min_date |-> date_min(df_original), max_date |-> date_max(df_original)]
    ELSE [used_fallback |-> FALSE,
          min_date |-> date_min(df_filtered), max_date |-> date_max(df_filtered)]

\* lines 93-108: the trend metrics of a non-empty current period
trend_changes(cs, cp, cm, ps, pp, pm) ==
    [current_sales |-> R(cs), current_profit |-> R(cp), current_margin |-> cm,
     previous_sales |-> R(ps), previous_profit |-> R(pp), previous_margin |-> pm,
     sales_change |-> pct_change(R(cs), R(ps)),
     profit_change |-> pct_change(R(cp), R(pp)),
     margin_change |-> pct_change(cm, pm)]

trend_sums(cs, cp, ps, pp) ==
    trend_changes(cs, cp, margin(cp, cs), ps, pp, margin(pp, ps))

\* lines 89-116: <<>> stands for the no-current-period message
performance_trends(df_current, df_previous) ==
    IF df_current = <<>> THEN <<>>
    ELSE <<trend_sums(col_sum(df_current, "Sales"), col_sum(df_current, "Profit"),
                      previous_sum(df_previous, "Sales"),
                      previous_sum(df_previous, "Profit"))>>

tile_values(total_sales, total_quantity, total_profit) ==
    [total_sales |-> R(total_sales), total_quantity |-> R(total_quantity),
     total_profit |-> R(total_profit),
     margin_rate |-> margin(total_profit, total_sales)]

\* lines 147-156
kpi_tiles(df_current) ==
    IF df_current = <<>>
    THEN [total_sales |-> R(0), total_quantity |-> R(0),
          total_profit |-> R(0), margin_rate |-> R(0)]
    ELSE tile_values(col_sum(df_current, "Sales"), col_sum(df_current, "Quantity"),
                     col_sum(df_current, "Profit"))

chart_result(selected_kpi, chart_type, daily, frames, top_10) ==
    [selected_kpi |-> selected_kpi, chart_type |-> chart_type, kpi_drawn |-> TRUE,
     df_original |-> frames.df_original,
     daily_grouped |-> daily, product_grouped |-> frames.product_grouped,
     top_10 |-> top_10,
     fig_time |-> <<[kind |-> chart_type, y |-> selected_kpi, data |-> daily]>>,
     fig_bar |-> <<[x |-> selected_kpi, data |-> top_10]>>]

chart_frames(selected_kpi, chart_type, daily, frames) ==
    chart_result(selected_kpi, chart_type, daily, frames,
                 head(frames.product_grouped, TopN))

chart_data(df_original, df_current, tie, selected_kpi, chart_type) ==
    chart_frames(selected_kpi, chart_type, daily_grouped(df_current),
        sort_inplace([df_original |-> df_original,
                      product_grouped |-> product_grouped(df_current)],
                     selected_kpi, tie))

\* the chart section without the empty check
charts_unguarded(df_original, df_current, w, tie) ==
    chart_data(df_original, df_current, tie,
               radio(kpi_options, w.kpi_drawn, w.kpi),
               radio(chart_options, w.kpi_drawn, w.chart))

\* lines 204-268: the warning, or the two radios and the two charts
charts(df_original, df_current, w, tie) ==
    IF df_current = <<>>
    THEN [selected_kpi |-> kpi_options[1], chart_type |-> chart_options[1],
          kpi_drawn |-> FALSE, df_original |-> df_original,
          daily_grouped |-> <<>>, product_grouped |-> <<>>, top_10 |-> <<>>,
          fig_time |-> <<>>, fig_bar |-> <<>>]
    ELSE chart_data(df_original, df_current, tie,
                    radio(kpi_options, w.kpi_drawn, w.kpi),
                    radio(chart_options, w.kpi_drawn, w.chart))

\* the widget state the run leaves and everything it shows
run_result(sb, dt, pd, trend, tiles, ch) ==
    [w |-> [region |-> sb.region, state |-> sb.state,
            category |-> sb.category, subcat |-> sb.subcat,
            from_date |-> dt.from_date, to_date |-> dt.to_date,
            kpi |-> ch.selected_kpi, chart |-> ch.chart_type,
            region_opts |-> sb.region_opts, state_opts |-> sb.state_opts,
            category_opts |-> sb.category_opts, subcat_opts |-> sb.subcat_opts,
            date_bounds |-> <<dt.min_date, dt.max_date>>,
            kpi_drawn |-> ch.kpi_drawn],
     out |-> [df_original |-> ch.df_original,
              df_filtered |-> sb.df_filtered,
              used_fallback |-> dt.used_fallback,
              min_date |-> dt.min_date, max_date |-> dt.max_date,
              sidebar_error |-> dt.sidebar_error,
              df_current |-> pd.df_current,
              selected_days |-> pd.selected_days,
              prev_from_date |-> pd.prev_from_date,
              prev_to_date |-> pd.prev_to_date,
              df_previous |-> pd.df_previous,
              trend_message |-> (pd.df_current = <<>>),
              trend |-> trend,
              tiles |-> tiles,
              warning |-> (pd.df_current = <<>>),
              kpi_selector |-> ch.kpi_drawn,
              daily_grouped |-> ch.daily_grouped,
              product_grouped |-> ch.product_grouped,
              top_10 |-> ch.top_10,
              fig_time |-> ch.fig_time,
              fig_bar |-> ch.fig_bar]]

\* lines 63-67: the two date inputs and the sidebar error
date_inputs(dr, from_date, to_date) ==
    [used_fallback |-> dr.used_fallback,
     min_date |-> dr.min_date, max_date |-> dr.max_date,
     from_date |-> from_date, to_date |-> to_date,
     sidebar_error |-> from_date > to_date]

date_widgets(dr, w) ==
    date_inputs(dr,
        date_input(dr.min_date, <<dr.min_date, dr.max_date>>,
                   w.date_bounds, w.from_date),
        date_input(dr.max_date, <<dr.min_date, dr.max_date>>,
                   w.date_bounds, w.to_date))

\* lines 56-67
sidebar_dates(df_original, df_filtered, w) ==
    date_widgets(date_range(df_original, df_filtered), w)

\* lines 70-82: df_current, the previous window, df_previous
period_frames(df_filtered, from_date, to_date, pw) ==
    [df_current |-> current_rows(df_filtered, from_date, to_date),
     selected_days |-> pw.selected_days,
     prev_from_date |-> pw.prev_from_date,
     prev_to_date |-> pw.prev_to_date,
     df_previous |-> mask_between(df_filtered, pw.prev_from_date, pw.prev_to_date)]

periods(df_filtered, from_date, to_date) ==
    period_frames(df_filtered, from_date, to_date,
                  previous_window(from_date, to_date))

\* lines 84-268
page_body(df_original, w, tie, sb, dt, pd) ==
    run_result(sb, dt, pd,
               performance_trends(pd.df_current, pd.df_previous),
               kpi_tiles(pd.df_current),
               charts(df_original, pd.df_current, w, tie))

after_dates(df_original, w, tie, sb, dt) ==
    page_body(df_original, w, tie, sb, dt,
              periods(sb.df_filtered, dt.from_date, dt.to_date))

after_sidebar(df_original, w, tie, sb) ==
    after_dates(df_original, w, tie, sb,
                sidebar_dates(df_original, sb.df_filtered, w))

\* One full execution of the script after load_data returned df_original,
\* with the session's stored widget state w.
script(df_original, w, tie) ==
    after_sidebar(df_original, w, tie, sidebar_filters(df_original, w))

\* what a session shows before its script has run
NoOutput ==
    [df_original |-> <<>>, df_filtered |-> <<>>, used_fallback |-> FALSE,
     min_date |-> 0, max_date |-> 0, sidebar_error |-> FALSE,
     df_current |-> <<>>, selected_days |-> 0, prev_from_date |-> 0,
     prev_to_date |-> 0, df_previous |-> <<>>, trend_message |-> FALSE,
     trend |-> <<>>,
     tiles |-> [total_sales |-> R(0), total_quantity |-> R(0),
                total_profit |-> R(0), margin_rate |-> R(0)],
     warning |-> FALSE, kpi_selector |-> FALSE, daily_grouped |-> <<>>,
     product_grouped |-> <<>>, top_10 |-> <<>>, fig_time |-> <<>>,
     fig_bar |-> <<>>]

\* ----------------------------------------------------------------- state
VARIABLES
    file,      \* the spreadsheet on disk: [datetime_dtype, rows]
    tie,       \* how the build's sort routine orders equal keys
    memo,      \* st.cache_data entry of load_data: <<>> or <<frame>>
    reads,     \* executions of load_data's body so far
    ran,       \* the script has run in the current session
    page       \* result of the last run: [w, out]

vars == <<file, tie, memo, reads, ran, page>>

\* the session's stored widget state
widgets == page.w

\* what the last run computed and showed
out == page.out

Range(seq) == {seq[i] : i \in DOMAIN seq}

\* the rows the small datasets are drawn from, in file order (days 1..3)
SampleRows ==
    << Row("East", "NY", "Furniture", "Chairs", "Chair", 1, 4, 2, 1),
       Row("East", "NJ", "Furniture", "Tables", "Table", 3, 2, 1, -1),
       Row("West", "CA", "Technology", "Phones", "Phone", 3, 0, 1, -1),
       Row("West", "CA", "Furniture", "Chairs", "Chair", 2, 2, 3, 2),
       Row(NaN, NaN, "Technology", NaN, "Phone", 2, 1, 1, 0) >>

\* the rows of table at the positions in S, in their order
Pick(table, S) == SelectSeq(table, LAMBDA r : \E i \in S : table[i] = r)

\* product i of the many-product datasets
ProductName(i) == SortedNames[7 + i]

\* a dataset of n rows, one product each, over two days; shift moves the
\* measures around the products (some sales are 0, some values tie)
ManyProducts(n, shift) ==
    AsSeq([i \in 1..n |->
            Row("East", "NY", "Furniture", "Chairs", ProductName(i),
                1 + (i % 2),
                ((3 * i + shift) % 7),
                1 + ((5 * i + shift) % 4),
                ((2 * i + shift) % 5) - 2)])

\* the spreadsheet file holding frame df, its dates stored as datetime or text
AsFile(df, dt) ==
    [datetime_dtype |-> dt,
     rows |-> IF dt THEN df
              ELSE AsSeq([i \in DOMAIN df |->
                            [df[i] EXCEPT !["Order Date"] = DateText[@]]])]

InitSession ==
    /\ memo = <<>>
    /\ reads = 0
    /\ ran = FALSE
    /\ page = [w |-> NoWidgets, out |-> NoOutput]

Init ==
    /\ \E S \in SUBSET DOMAIN SampleRows : \E dt \in BOOLEAN :
          /\ S # {}
          /\ Cardinality(S) <= MaxRows
          /\ file = AsFile(Pick(SampleRows, S), dt)
    /\ tie \in {"first", "last"}
    /\ InitSession

InitTop ==
    /\ \E n \in (TopN - 1)..(TopN + ExtraProducts) : \E shift \in 0..1 :
       \E dt \in BOOLEAN :
          file = AsFile(ManyProducts(n, shift), dt)
    /\ tie \in {"first", "last"}
    /\ InitSession

\* ---------------------------------------------------------------- actions
\* One script run with stored widget state w (the state the interaction
\* left): load_data, then the script body.
Run(w) ==
    /\ memo' = load_data(memo, file).memo
    /\ reads' = reads + load_data(memo, file).reads
    /\ ran' = TRUE
    /\ page' = script(load_data(memo, file).df, w, tie)
    /\ UNCHANGED <<file, tie>>

\* the browser opens the page
FirstRun ==
    /\ ~ran
    /\ Run(widgets)

\* the browser reconnects: a new session with default widgets; the
\* memoized dataset stays with the server process
NewSession ==
    /\ ran
    /\ ran' = FALSE
    /\ page' = [w |-> NoWidgets, out |-> NoOutput]
    /\ UNCHANGED <<file, tie, memo, reads>>

\* a rerun with no widget changed
Rerun ==
    /\ ran
    /\ Run(widgets)

SelectRegion(v) ==
    /\ ran
    /\ v \in Range(widgets.region_opts)
    /\ v # widgets.region
    /\ Run([widgets EXCEPT !.region = v])

SelectState(v) ==
    /\ ran
    /\ v \in Range(widgets.state_opts)
    /\ v # widgets.state
    /\ Run([widgets EXCEPT !.state = v])

SelectCategory(v) ==
    /\ ran
    /\ v \in Range(widgets.category_opts)
    /\ v # widgets.category
    /\ Run([widgets EXCEPT !.category = v])

SelectSubCategory(v) ==
    /\ ran
    /\ v \in Range(widgets.subcat_opts)
    /\ v # widgets.subcat
    /\ Run([widgets EXCEPT !.subcat = v])

SetFromDate(d) ==
    /\ ran
    /\ d \in widgets.date_bounds[1]..widgets.date_bounds[2]
    /\ d # widgets.from_date
    /\ Run([widgets EXCEPT !.from_date = d])

SetToDate(d) ==
    /\ ran
    /\ d \in widgets.date_bounds[1]..widgets.date_bounds[2]
    /\ d # widgets.to_date
    /\ Run([widgets EXCEPT !.to_date = d])

SelectKpi(k) ==
    /\ ran
    /\ widgets.kpi_drawn
    /\ k \in Range(kpi_options)
    /\ k # widgets.kpi
    /\ Run([widgets EXCEPT !.kpi = k])

SelectChartType(c) ==
    /\ ran
    /\ widgets.kpi_drawn
    /\ c \in Range(chart_options)
    /\ c # widgets.chart
    /\ Run([widgets EXCEPT !.chart = c])

UserSelectsRegion == \E v \in Range(widgets.region_opts) : SelectRegion(v)
UserSelectsState == \E v \in Range(widgets.state_opts) : SelectState(v)
UserSelectsCategory == \E v \in Range(widgets.category_opts) : SelectCategory(v)
UserSelectsSubCategory == \E v \in Range(widgets.subcat_opts) : SelectSubCategory(v)
UserSetsFromDate == \E d \in DOMAIN DateText : SetFromDate(d)
UserSetsToDate == \E d \in DOMAIN DateText : SetToDate(d)
UserSelectsKpi == \E k \in Range(kpi_options) : SelectKpi(k)
UserSelectsChartType == \E c \in Range(chart_options) : SelectChartType(c)

Next ==
    \/ FirstRun
    \/ NewSession
    \/ Rerun
    \/ UserSelectsRegion
    \/ UserSelectsState
    \/ UserSelectsCategory
    \/ UserSelectsSubCategory
    \/ UserSetsFromDate
    \/ UserSetsToDate
    \/ UserSelectsKpi
    \/ UserSelectsChartType

\* small datasets, every filter dimension
Spec == Init /\ [][Next]_vars

\* datasets with up to TopN + ExtraProducts products
SpecTop == InitTop /\ [][Next]_vars

\* ================================================================ claims
\* the frame load_data returned (defined once the script has run)
Data == memo[1]

\* row r passes every categorical filter that is not set to "All"
PassesFilters(r) ==
    /\ widgets.region = "All" \/ r["Region"] = widgets.region
    /\ widgets.state = "All" \/ r["State"] = widgets.state
    /\ widgets.category = "All" \/ r["Category"] = widgets.category
    /\ widgets.subcat = "All" \/ r["Sub-Category"] = widgets.subcat

\* the categorically filtered rows, from the dataset and the selections
FilteredRows == SelectSeq(Data, PassesFilters)

RowsBetween(df, lo, hi) ==
    SelectSeq(df, LAMBDA r : lo <= r["Order Date"] /\ r["Order Date"] <= hi)

IsEmpty(df) == Len(df) = 0

\* m is the margin rate of a grouping with these sums: profit / sales, and
\* 0 when sales is 0
IsMarginRate(m, profit, sales) ==
    IF sales # 0
    THEN m[2] > 0 /\ m[1] * sales = profit * m[2]
    ELSE m = <<0, 1>>

\* C1: every margin rate shown (trend current and previous period, KPI
\* tile, each order date of the time series, each product of the product
\* table) is profit / sales of its grouping, and 0 when the grouping's
\* summed sales is 0
C1_MarginRate ==
    ran =>
        /\ \A i \in DOMAIN out.trend :
              /\ IsMarginRate(out.trend[i].current_margin,
                              out.trend[i].current_profit[1],
                              out.trend[i].current_sales[1])
              /\ IsMarginRate(out.trend[i].previous_margin,
                              out.trend[i].previous_profit[1],
                              out.trend[i].previous_sales[1])
        /\ IsMarginRate(out.tiles.margin_rate, out.tiles.total_profit[1],
                        out.tiles.total_sales[1])
        /\ \A i \in DOMAIN out.daily_grouped :
              IsMarginRate(out.daily_grouped[i]["Margin Rate"],
                           out.daily_grouped[i]["Profit"],
                           out.daily_grouped[i]["Sales"])
        /\ \A i \in DOMAIN out.product_grouped :
              IsMarginRate(out.product_grouped[i]["Margin Rate"],
                           out.product_grouped[i]["Profit"],
                           out.product_grouped[i]["Sales"])

\* the margin rates of the whole current and previous period and of the
\* KPI tile alone (lines 95, 100, 156)
C1_PeriodMarginRate ==
    ran =>
        /\ \A i \in DOMAIN out.trend :
              /\ IsMarginRate(out.trend[i].current_margin,
                              out.trend[i].current_profit[1],
                              out.trend[i].current_sales[1])
              /\ IsMarginRate(out.trend[i].previous_margin,
                              out.trend[i].previous_profit[1],
                              out.trend[i].previous_sales[1])
        /\ IsMarginRate(out.tiles.margin_rate, out.tiles.total_profit[1],
                        out.tiles.total_sales[1])

\* C2: with From Date <= To Date the previous window has as many days as
\* the selected range, ends the day before From Date, lies wholly before
\* the range, and df_previous is exactly the categorically filtered rows
\* dated within it
C2_PreviousWindow ==
    (ran /\ widgets.from_date <= widgets.to_date) =>
        /\ out.prev_to_date - out.prev_from_date + 1
              = widgets.to_date - widgets.from_date + 1
        /\ out.prev_to_date = widgets.from_date - 1
        /\ \A d \in out.prev_from_date..out.prev_to_date :
              ~(widgets.from_date <= d /\ d <= widgets.to_date)
        /\ out.df_previous
              = RowsBetween(FilteredRows, out.prev_from_date, out.prev_to_date)

C2_Witness ==
    /\ ran
    /\ widgets.from_date < widgets.to_date
    /\ ~IsEmpty(out.df_previous)
    /\ Len(out.df_previous) < Len(FilteredRows)

\* C3: the current-period rows are exactly the dataset rows that pass
\* every categorical filter not set to "All" and are dated within
\* [From Date, To Date], bounds included
C3_CurrentRows ==
    ran => out.df_current
              = RowsBetween(FilteredRows, widgets.from_date, widgets.to_date)

C3_Witness ==
    /\ ran
    /\ widgets.region # "All"
    /\ widgets.category # "All"
    /\ widgets.from_date > out.min_date
    /\ widgets.to_date = out.max_date
    /\ ~IsEmpty(out.df_current)
    /\ Len(out.df_current) < Len(FilteredRows)
    /\ Len(FilteredRows) < Len(Data)

ZeroTiles ==
    /\ out.tiles.total_sales = <<0, 1>>
    /\ out.tiles.total_quantity = <<0, 1>>
    /\ out.tiles.total_profit = <<0, 1>>
    /\ out.tiles.margin_rate = <<0, 1>>

\* C4: a run with an empty current period (every run with From Date later
\* than To Date is one, and shows the sidebar error) shows the warning, no
\* KPI selector, no chart, the no-current-period message instead of trend
\* metrics and four tiles of 0; a run with a non-empty current period
\* shows no warning and both charts
C4_EmptyPeriod ==
    ran =>
        /\ widgets.from_date > widgets.to_date =>
              out.sidebar_error /\ IsEmpty(out.df_current)
        /\ IsEmpty(out.df_current) =>
              /\ out.warning
              /\ ~out.kpi_selector
              /\ IsEmpty(out.fig_time)
              /\ IsEmpty(out.fig_bar)
              /\ out.trend_message
              /\ IsEmpty(out.trend)
              /\ ZeroTiles
        /\ ~IsEmpty(out.df_current) =>
              /\ ~out.warning
              /\ Len(out.fig_time) = 1
              /\ Len(out.fig_bar) = 1

C4_Witness ==
    /\ ran
    /\ widgets.from_date > widgets.to_date
    /\ ~IsEmpty(out.df_filtered)

\* frame df holds the rows of spreadsheet f, field by field (a text Order
\* Date as the day it denotes)
SameAsFile(df, f) ==
    /\ Len(df) = Len(f.rows)
    /\ \A i \in DOMAIN df :
          /\ \A c \in {"Region", "State", "Category", "Sub-Category",
                       "Product Name", "Sales", "Quantity", "Profit"} :
                df[i][c] = f.rows[i][c]
          /\ IF f.datetime_dtype
             THEN df[i]["Order Date"] = f.rows[i]["Order Date"]
             ELSE DateText[df[i]["Order Date"]] = f.rows[i]["Order Date"]

\* C5: after every run the dataset load_data returned, and the memoized
\* copy, hold the rows and field values of the first load
C5_DatasetUnchanged ==
    ran =>
        /\ memo # <<>>
        /\ SameAsFile(Data, file)
        /\ out.df_original = Data

\* a run whose in-place sort reordered the product table
C5_Witness ==
    /\ ran
    /\ reads = 1
    /\ widgets.category # "All"
    /\ Len(out.product_grouped) > 1
    /\ out.product_grouped # product_grouped(out.df_current)

\* the widget values alone
Values(w) ==
    [region |-> w.region, state |-> w.state, category |-> w.category,
     subcat |-> w.subcat, from_date |-> w.from_date, to_date |-> w.to_date,
     kpi |-> w.kpi, chart |-> w.chart]

\* A fresh session that brings the widgets to the values v top to bottom,
\* changing each widget that does not hold its value yet, each change
\* followed by its run: the page after the last run.
SetChart(df, v, r) ==
    IF r.w.chart = v.chart THEN r
    ELSE script(df, [r.w EXCEPT !.chart = v.chart], tie)
SetKpi(df, v, r) ==
    IF r.w.kpi = v.kpi THEN SetChart(df, v, r)
    ELSE SetChart(df, v, script(df, [r.w EXCEPT !.kpi = v.kpi], tie))
SetTo(df, v, r) ==
    IF r.w.to_date = v.to_date THEN SetKpi(df, v, r)
    ELSE SetKpi(df, v, script(df, [r.w EXCEPT !.to_date = v.to_date], tie))
SetFrom(df, v, r) ==
    IF r.w.from_date = v.from_date THEN SetTo(df, v, r)
    ELSE SetTo(df, v, script(df, [r.w EXCEPT !.from_date = v.from_date], tie))
SetSubcat(df, v, r) ==
    IF r.w.subcat = v.subcat THEN SetFrom(df, v, r)
    ELSE SetFrom(df, v, script(df, [r.w EXCEPT !.subcat = v.subcat], tie))
SetCategory(df, v, r) ==
    IF r.w.category = v.category THEN SetSubcat(df, v, r)
    ELSE SetSubcat(df, v, script(df, [r.w EXCEPT !.category = v.category], tie))
SetState(df, v, r) ==
    IF r.w.state = v.state THEN SetCategory(df, v, r)
    ELSE SetCategory(df, v, script(df, [r.w EXCEPT !.state = v.state], tie))
SetRegion(df, v, r) ==
    IF r.w.region = v.region THEN SetState(df, v, r)
    ELSE SetState(df, v, script(df, [r.w EXCEPT !.region = v.region], tie))
TopToBottom(df, v) == SetRegion(df, v, script(df, NoWidgets, tie))

\* C6: what a run shows is fixed by the dataset and the widget values: a
\* session that reached its widget values by any sequence of interactions
\* shows what a fresh session shows that sets the same values top to
\* bottom; and the file is read at most once
C6_FunctionOfWidgets ==
    /\ reads <= 1
    /\ ran => /\ SameAsFile(Data, file)
              /\ page = TopToBottom(Data, Values(widgets))

C6_Witness ==
    /\ ran
    /\ reads = 1
    /\ widgets.state # "All"
    /\ widgets.from_date > out.min_date
    /\ widgets.kpi = "Profit"
    /\ widgets.chart = "Area Chart"

\* change is (current - previous) / previous * 100
IsPctChange(change, current, previous) ==
    /\ change[2] > 0
    /\ change[1] * (current[2] * previous[1])
          = change[2] * 100 * (current[1] * previous[2] - previous[1] * current[2])

IsDelta(change, current, previous) ==
    IF previous[1] # 0
    THEN IsPctChange(change, current, previous)
    ELSE change = <<1, 0>>

\* C7: each delta of Sales, Profit and Margin Rate is
\* (current - previous) / previous * 100 when the previous value is not 0
\* and infinite when it is 0 (as it is when the previous period has no
\* rows); deltas exist exactly when the current period is non-empty
C7_PercentDelta ==
    ran =>
        /\ IsEmpty(out.trend) <=> IsEmpty(out.df_current)
        /\ \A i \in DOMAIN out.trend :
              LET t == out.trend[i]
              IN  /\ t.current_sales = <<col_sum(out.df_current, "Sales"), 1>>
                  /\ t.current_profit = <<col_sum(out.df_current, "Profit"), 1>>
                  /\ t.previous_sales = <<col_sum(out.df_previous, "Sales"), 1>>
                  /\ t.previous_profit = <<col_sum(out.df_previous, "Profit"), 1>>
                  /\ IsDelta(t.sales_change, t.current_sales, t.previous_sales)
                  /\ IsDelta(t.profit_change, t.current_profit, t.previous_profit)
                  /\ IsDelta(t.margin_change, t.current_margin, t.previous_margin)
                  /\ IsEmpty(out.df_previous) =>
                        /\ t.sales_change = <<1, 0>>
                        /\ t.profit_change = <<1, 0>>
                        /\ t.margin_change = <<1, 0>>

\* finite deltas of all three metrics
C7_Witness ==
    /\ ran
    /\ ~IsEmpty(out.trend)
    /\ \A i \in DOMAIN out.trend :
          /\ out.trend[i].previous_sales[1] # 0
          /\ out.trend[i].previous_profit[1] # 0
          /\ out.trend[i].margin_change[2] # 0
          /\ out.trend[i].margin_change[1] < 0

\* the products sold in the current period
CurrentProducts ==
    {out.df_current[i]["Product Name"] : i \in DOMAIN out.df_current} \ {NaN}

RowsOfProduct(p) == SelectSeq(out.df_current, LAMBDA r : r["Product Name"] = p)

Min(a, b) == IF a < b THEN a ELSE b

\* the value the product table holds for product p under the selected KPI
TableValue(p) ==
    LET i == CHOOSE i \in DOMAIN out.product_grouped :
                 out.product_grouped[i]["Product Name"] = p
    IN  kpi_value(out.product_grouped[i], widgets.kpi)

TopProducts == {out.top_10[i]["Product Name"] : i \in DOMAIN out.top_10}

NonNull(df, col) == {df[i][col] : i \in DOMAIN df} \ {NaN}

\* rows of the dataset that pass the filters before the state filter, the
\* category filter and the sub-category filter
PassedRegion == SelectSeq(Data, LAMBDA r :
    widgets.region = "All" \/ r["Region"] = widgets.region)
PassedState == SelectSeq(PassedRegion, LAMBDA r :
    widgets.state = "All" \/ r["State"] = widgets.state)
PassedCategory == SelectSeq(PassedState, LAMBDA r :
    widgets.category = "All" \/ r["Category"] = widgets.category)

\* C9: each categorical filter offers "All" plus exactly the distinct
\* non-null values of the rows that passed the filters before it, its
\* selection is one of the offered options, the categorically filtered
\* rows are never empty and the date bounds are those of the filtered rows
C9_Options ==
    ran =>
        /\ Range(widgets.region_opts) = {"All"} \cup NonNull(Data, "Region")
        /\ Range(widgets.state_opts) = {"All"} \cup NonNull(PassedRegion, "State")
        /\ Range(widgets.category_opts)
              = {"All"} \cup NonNull(PassedState, "Category")
        /\ Range(widgets.subcat_opts)
              = {"All"} \cup NonNull(PassedCategory, "Sub-Category")
        /\ widgets.region \in Range(widgets.region_opts)
        /\ widgets.state \in Range(widgets.state_opts)
        /\ widgets.category \in Range(widgets.category_opts)
        /\ widgets.subcat \in Range(widgets.subcat_opts)
        /\ ~IsEmpty(FilteredRows)
        /\ out.df_filtered = FilteredRows
        /\ ~out.used_fallback
        /\ \A i \in DOMAIN FilteredRows :
              /\ out.min_date <= FilteredRows[i]["Order Date"]
              /\ FilteredRows[i]["Order Date"] <= out.max_date
        /\ \E i \in DOMAIN FilteredRows : FilteredRows[i]["Order Date"] = out.min_date
        /\ \E i \in DOMAIN FilteredRows : FilteredRows[i]["Order Date"] = out.max_date

\* a state picked under "All" regions in a dataset that has a row with no
\* region and state, narrowed further by category
C9_Witness ==
    /\ ran
    /\ \E i \in DOMAIN Data : Data[i]["State"] = NaN
    /\ widgets.state # "All"
    /\ widgets.category # "All"
    /\ Len(FilteredRows) < Len(Data)

\* C10: From Date and To Date lie within [min_date, max_date] of the
\* categorically filtered rows; with From Date = min_date and To Date =
\* max_date the current period is every filtered row, the previous period
\* is empty and the three trend deltas are infinite
C10_DateBounds ==
    ran =>
        /\ out.min_date <= widgets.from_date /\ widgets.from_date <= out.max_date
        /\ out.min_date <= widgets.to_date /\ widgets.to_date <= out.max_date
        /\ \A i \in DOMAIN FilteredRows :
              /\ out.min_date <= FilteredRows[i]["Order Date"]
              /\ FilteredRows[i]["Order Date"] <= out.max_date
        /\ (widgets.from_date = out.min_date /\ widgets.to_date = out.max_date) =>
              /\ out.df_current = FilteredRows
              /\ IsEmpty(out.df_previous)
              /\ Len(out.trend) = 1
              /\ \A i \in DOMAIN out.trend :
                    /\ out.trend[i].sales_change = <<1, 0>>
                    /\ out.trend[i].profit_change = <<1, 0>>
                    /\ out.trend[i].margin_change = <<1, 0>>

\* the date inputs back at their defaults after a filter change moved the
\* bounds
C10_Witness ==
    /\ ran
    /\ widgets.region # "All"
    /\ out.min_date < out.max_date
    /\ widgets.from_date = out.min_date
    /\ widgets.to_date = out.max_date
    /\ \E i \in DOMAIN Data : Data[i]["Order Date"] < out.min_date

====
